---- MODULE Spec2Model ----
(***************************************************************************)
(* Model of fleiss_kappa_app.py: fleiss_kappa_binary (the Agreement        *)
(* Calculator, "compute") and reviewer_contribution_analysis (the          *)
(* Contribution Analyzer, "analyze").                                      *)
(*                                                                         *)
(* The arithmetic of the source is IEEE-754 binary64 (Python float and     *)
(* numpy.float64).  It is modelled bit-exactly: a double is a record with  *)
(* a sign, a 53-bit significand and an exponent, and every operation       *)
(* rounds to nearest, ties to even.  Significands do not fit the model     *)
(* checker's integers, so they are little-endian sequences of 15-bit       *)
(* limbs.                                                                  *)
(***************************************************************************)
EXTENDS Integers, Sequences, FiniteSets, TLC

(***************************************************************************)
(* Natural numbers of arbitrary size: little-endian limbs, no high zero    *)
(* limb, zero is the empty sequence.                                       *)
(***************************************************************************)
LimbBits == 15
Base == 32768
Prec == 53

BHead(a) == IF a = <<>> THEN 0 ELSE Head(a)
BTail(a) == IF a = <<>> THEN <<>> ELSE Tail(a)

RECURSIVE Zeros(_)
Zeros(n) == IF n <= 0 THEN <<>> ELSE <<0>> \o Zeros(n - 1)

RECURSIVE BTrim(_)
BTrim(a) ==
  IF a = <<>> THEN a
  ELSE IF a[Len(a)] = 0 THEN BTrim(SubSeq(a, 1, Len(a) - 1)) ELSE a

RECURSIVE BFromNat(_)
BFromNat(n) == IF n = 0 THEN <<>> ELSE <<n % Base>> \o BFromNat(n \div Base)

RECURSIVE BAddC(_, _, _)
BAddC(a, b, c) ==
  IF a = <<>> /\ b = <<>> THEN (IF c = 0 THEN <<>> ELSE <<c>>)
  ELSE LET x == BHead(a) + BHead(b) + c
       IN  <<x % Base>> \o BAddC(BTail(a), BTail(b), x \div Base)

BAdd(a, b) == BAddC(a, b, 0)

RECURSIVE BSubB(_, _, _)
BSubB(a, b, br) ==
  IF a = <<>> /\ b = <<>> THEN <<>>
  ELSE LET x == BHead(a) - BHead(b) - br
       IN  IF x < 0 THEN <<x + Base>> \o BSubB(BTail(a), BTail(b), 1)
           ELSE <<x>> \o BSubB(BTail(a), BTail(b), 0)

\* a - b for a >= b
BSub(a, b) == BTrim(BSubB(a, b, 0))

RECURSIVE BCmpAt(_, _, _)
BCmpAt(a, b, i) ==
  IF i = 0 THEN 0
  ELSE IF a[i] # b[i] THEN (IF a[i] < b[i] THEN -1 ELSE 1)
  ELSE BCmpAt(a, b, i - 1)

\* -1, 0, 1 as a < b, a = b, a > b
BCmp(a, b) ==
  IF Len(a) # Len(b) THEN (IF Len(a) < Len(b) THEN -1 ELSE 1)
  ELSE BCmpAt(a, b, Len(a))

RECURSIVE BMulSmallC(_, _, _)
BMulSmallC(a, k, c) ==
  IF a = <<>> THEN (IF c = 0 THEN <<>> ELSE <<c>>)
  ELSE LET x == Head(a) * k + c
       IN  <<x % Base>> \o BMulSmallC(Tail(a), k, x \div Base)

\* a * k for 0 < k < Base
BMulSmall(a, k) == BMulSmallC(a, k, 0)

RECURSIVE BMulR(_, _)
BMulR(a, b) ==
  IF b = <<>> THEN <<>>
  ELSE BAddC(BMulSmallC(a, Head(b), 0), <<0>> \o BMulR(a, Tail(b)), 0)

BMul(a, b) == BTrim(BMulR(a, b))

\* a * 2^n
BShl(a, n) ==
  IF a = <<>> THEN <<>>
  ELSE Zeros(n \div LimbBits) \o BMulSmall(a, 2 ^ (n % LimbBits))

RECURSIVE BDivSmallAt(_, _, _, _)
BDivSmallAt(a, k, i, rem) ==
  IF i = 0 THEN [q |-> <<>>, r |-> rem]
  ELSE LET cur  == rem * Base + a[i]
           rest == BDivSmallAt(a, k, i - 1, cur % k)
       IN  [q |-> Append(rest.q, cur \div k), r |-> rest.r]

\* quotient and remainder of a by k, 0 < k < Base
BDivSmall(a, k) ==
  LET d == BDivSmallAt(a, k, Len(a), 0) IN [q |-> BTrim(d.q), r |-> d.r]

RECURSIVE SmallBitLen(_)
SmallBitLen(x) == IF x = 0 THEN 0 ELSE 1 + SmallBitLen(x \div 2)

BBitLen(a) ==
  IF a = <<>> THEN 0 ELSE LimbBits * (Len(a) - 1) + SmallBitLen(a[Len(a)])

BOdd(a) == a # <<>> /\ Head(a) % 2 = 1

\* floor(a / 2^n), and whether a bit was shifted out
BShr(a, n) ==
  LET d    == n \div LimbBits
      low  == SubSeq(a, 1, IF d < Len(a) THEN d ELSE Len(a))
      high == IF d < Len(a) THEN SubSeq(a, d + 1, Len(a)) ELSE <<>>
      dv   == BDivSmall(high, 2 ^ (n % LimbBits))
  IN  [q |-> dv.q, st |-> (dv.r # 0) \/ (BTrim(low) # <<>>)]

(***************************************************************************)
(* binary64 values.  k is "fin", "inf" or "nan"; a finite non-zero value   *)
(* is (-1)^s * m * 2^e with m of exactly Prec bits; zero has m = <<>>.     *)
(* The exponent range of binary64 is never left by the values of this      *)
(* program (magnitudes between 2^-120 and 2^10), so overflow and           *)
(* subnormals are not represented.                                         *)
(***************************************************************************)
FNaN == [k |-> "nan", s |-> 0, m |-> <<>>, e |-> 0]
FInf(s) == [k |-> "inf", s |-> s, m |-> <<>>, e |-> 0]
FZero(s) == [k |-> "fin", s |-> s, m |-> <<>>, e |-> 0]

IsNaN(x) == x.k = "nan"
IsZero(x) == x.k = "fin" /\ x.m = <<>>

\* the significand q of Prec bits, or of Prec + 1 bits after a carry
FPack(s, q, e) ==
  IF BBitLen(q) > Prec
    THEN [k |-> "fin", s |-> s, m |-> BDivSmall(q, 2).q, e |-> e + 1]
    ELSE [k |-> "fin", s |-> s, m |-> q, e |-> e]

\* q of Prec bits followed by the guard bit and the rest: nearest, ties to even
FRoundUp(s, q, guard, rest, e) ==
  FPack(s, IF guard /\ (rest \/ BOdd(q)) THEN BAdd(q, <<1>>) ELSE q, e)

\* r.q of Prec + 1 bits, the last being the guard bit
FRoundCut(s, r, e, sticky) ==
  FRoundUp(s, BDivSmall(r.q, 2).q, BOdd(r.q), r.st \/ sticky, e)

FRoundLen(s, M, e, sticky, L) ==
  IF L <= Prec
    THEN [k |-> "fin", s |-> s, m |-> BShl(M, Prec - L), e |-> e - (Prec - L)]
    ELSE FRoundCut(s, BShr(M, L - Prec - 1), e + (L - Prec), sticky)

\* round (-1)^s * (M + f) * 2^e, 0 <= f < 1, f > 0 iff sticky, to nearest even
FRound(s, M, e, sticky) ==
  IF M = <<>> THEN FZero(s) ELSE FRoundLen(s, M, e, sticky, BBitLen(M))

\* int -> float (exact for |n| < 2^30)
FFromInt(n) ==
  FRound(IF n < 0 THEN 1 ELSE 0, BFromNat(IF n < 0 THEN -n ELSE n), 0, FALSE)

FNeg(x) == IF x.k = "nan" THEN x ELSE [x EXCEPT !.s = 1 - x.s]

\* (-1)^hs * Mh * 2^e + (-1)^ls * Ml * 2^e; c compares Mh with Ml
FAddAligned(hs, Mh, ls, Ml, e, c) ==
  FRound(IF hs = ls \/ c > 0 THEN hs ELSE IF c < 0 THEN ls ELSE 0,
         IF hs = ls THEN BAdd(Mh, Ml)
         ELSE IF c >= 0 THEN BSub(Mh, Ml) ELSE BSub(Ml, Mh),
         e, FALSE)

FAddShifted(hs, Mh, ls, Ml, e) == FAddAligned(hs, Mh, ls, Ml, e, BCmp(Mh, Ml))

\* hi + lo for finite non-zero values with hi.e >= lo.e
FAddOrdered(hi, lo) ==
  FAddShifted(hi.s, BShl(hi.m, hi.e - lo.e), lo.s, lo.m, lo.e)

\* x + y for finite non-zero x, y
FAddFin(x, y) ==
  FAddOrdered(IF x.e >= y.e THEN x ELSE y, IF x.e >= y.e THEN y ELSE x)

FAdd(x, y) ==
  IF x.k = "nan" \/ y.k = "nan" THEN FNaN
  ELSE IF x.k = "inf" /\ y.k = "inf" THEN (IF x.s = y.s THEN x ELSE FNaN)
  ELSE IF x.k = "inf" THEN x
  ELSE IF y.k = "inf" THEN y
  ELSE IF IsZero(x) /\ IsZero(y) THEN FZero(IF x.s = 1 /\ y.s = 1 THEN 1 ELSE 0)
  ELSE IF IsZero(x) THEN y
  ELSE IF IsZero(y) THEN x
  ELSE FAddFin(x, y)

FSub(x, y) == FAdd(x, FNeg(y))

FMul(x, y) ==
  LET s == (x.s + y.s) % 2 IN
  IF x.k = "nan" \/ y.k = "nan" THEN FNaN
  ELSE IF x.k = "inf" \/ y.k = "inf"
    THEN (IF IsZero(x) \/ IsZero(y) THEN FNaN ELSE FInf(s))
  ELSE IF IsZero(x) \/ IsZero(y) THEN FZero(s)
  ELSE FRound(s, BMul(x.m, y.m), x.e + y.e, FALSE)

\* The loops below bind each iteration's new state with a quantified
\* variable (v \in {st}), so that it is a value when the next iteration runs.

BLimb(a, i) == IF i <= Len(a) THEN a[i] ELSE 0

\* the largest q with d * q <= r, starting from the estimate qh >= q
RECURSIVE BFixDigit(_, _, _)
BFixDigit(r, d, qh) ==
  IF qh = 0 THEN 0
  ELSE IF BCmp(BMulSmall(d, qh), r) > 0 THEN BFixDigit(r, d, qh - 1)
  ELSE qh

\* schoolbook long division in base Base: n more quotient limbs of r / d,
\* for r < d * Base and d of DivLimbs limbs with its top bit set
DivLimbs == 4

RECURSIVE BLongDiv(_, _, _, _)
BLongDiv(r, d, q, n) ==
  IF n = 0 THEN [q |-> BTrim(q), r |-> r]
  ELSE LET top == BLimb(r, DivLimbs + 1) * Base + BLimb(r, DivLimbs)
           est == top \div d[DivLimbs]
           qd  == BFixDigit(r, d, IF est > Base - 1 THEN Base - 1 ELSE est)
           r2  == IF qd = 0 THEN r ELSE BSub(r, BMulSmall(d, qd))
           st  == [r |-> IF n = 1 \/ r2 = <<>> THEN r2 ELSE <<0>> \o r2,
                   q |-> <<qd>> \o q]
       IN  CHOOSE y \in {BLongDiv(v.r, d, v.q, n - 1) : v \in {st}} : TRUE

\* x / y for finite non-zero x, y: floor(x.m * Base^4 / y.m), then round
FDivFin(x, y) ==
  LET nrm == DivLimbs * LimbBits - Prec
      d   == BLongDiv(BShl(x.m, nrm), BShl(y.m, nrm), <<>>, DivLimbs + 1)
  IN  FRound((x.s + y.s) % 2, d.q, x.e - y.e - DivLimbs * LimbBits,
             d.r # <<>>)

\* x / n for finite x and an integer 0 < n < Base
FDivByInt(x, n) ==
  LET sh == SmallBitLen(n) + 3
      d  == BDivSmall(BShl(x.m, sh), n)
  IN  IF IsZero(x) THEN x ELSE FRound(x.s, d.q, x.e - sh, d.r # 0)

\* numpy.float64 true division: x/0 gives inf or nan (with a RuntimeWarning),
\* never an exception
FDiv(x, y) ==
  LET s == (x.s + y.s) % 2 IN
  IF x.k = "nan" \/ y.k = "nan" THEN FNaN
  ELSE IF x.k = "inf" THEN (IF y.k = "inf" THEN FNaN ELSE FInf(s))
  ELSE IF y.k = "inf" THEN FZero(s)
  ELSE IF IsZero(y) THEN (IF IsZero(x) THEN FNaN ELSE FInf(s))
  ELSE IF IsZero(x) THEN FZero(s)
  ELSE FDivFin(x, y)

\* -1, 0, 1 for x < y, x = y, x > y on non-NaN values
FCmpMag(x, y) ==
  IF IsZero(x) /\ IsZero(y) THEN 0
  ELSE IF IsZero(x) THEN -1
  ELSE IF IsZero(y) THEN 1
  ELSE IF x.e # y.e THEN (IF x.e < y.e THEN -1 ELSE 1)
  ELSE BCmp(x.m, y.m)

FCmp(x, y) ==
  IF IsZero(x) /\ IsZero(y) THEN 0
  ELSE IF x.k = "inf" /\ y.k = "inf" THEN
       (IF x.s = y.s THEN 0 ELSE IF x.s = 1 THEN -1 ELSE 1)
  ELSE IF x.k = "inf" THEN (IF x.s = 1 THEN -1 ELSE 1)
  ELSE IF y.k = "inf" THEN (IF y.s = 1 THEN 1 ELSE -1)
  ELSE IF IsZero(x) THEN (IF y.s = 1 THEN 1 ELSE -1)
  ELSE IF IsZero(y) THEN (IF x.s = 1 THEN -1 ELSE 1)
  ELSE IF x.s # y.s THEN (IF x.s = 1 THEN -1 ELSE 1)
  ELSE IF x.s = 0 THEN FCmpMag(x, y) ELSE FCmpMag(y, x)

\* the comparisons of Python floats: every comparison with NaN is false
FLe(x, y) == ~IsNaN(x) /\ ~IsNaN(y) /\ FCmp(x, y) <= 0
FLt(x, y) == ~IsNaN(x) /\ ~IsNaN(y) /\ FCmp(x, y) < 0
FGt(x, y) == FLt(y, x)
FEq(x, y) == ~IsNaN(x) /\ ~IsNaN(y) /\ FCmp(x, y) = 0

(***************************************************************************)
(* fleiss_kappa_binary                                                     *)
(***************************************************************************)
ErrEmpty   == "The ratings list is empty."
ErrRaters  == "There should be at least two raters."
ErrLength  == "All inner lists should have the same length."
ErrBinary  == "All ratings should be binary (0 or 1)."
ErrItems   == "There should be at least two items being rated."
ErrZeroDiv == "ZeroDivisionError"
ErrMaxEmpty == "max() arg is an empty sequence"
NoErr      == "none"

\* Validate without its first check: an empty list meets the rater count check
ValidateNoEmptyCheck(ratings) ==
  IF Len(ratings) < 2 THEN ErrRaters
  ELSE IF Cardinality({Len(ratings[j]) : j \in 1..Len(ratings)}) # 1
    THEN ErrLength
  ELSE IF \E j \in 1..Len(ratings) :
            \E i \in 1..Len(ratings[j]) : ratings[j][i] \notin {0, 1}
    THEN ErrBinary
  ELSE IF Len(ratings[1]) < 2 THEN ErrItems
  ELSE NoErr

\* Validate with the item count checked before the values
ValidateItemsFirst(ratings) ==
  IF Len(ratings) = 0 THEN ErrEmpty
  ELSE IF Len(ratings) < 2 THEN ErrRaters
  ELSE IF Cardinality({Len(ratings[j]) : j \in 1..Len(ratings)}) # 1
    THEN ErrLength
  ELSE IF Len(ratings[1]) < 2 THEN ErrItems
  ELSE IF \E j \in 1..Len(ratings) :
            \E i \in 1..Len(ratings[j]) : ratings[j][i] \notin {0, 1}
    THEN ErrBinary
  ELSE NoErr

\* Validate with the values of the first row only checked
ValidateFirstRowOnly(ratings) ==
  IF Len(ratings) = 0 THEN ErrEmpty
  ELSE IF Len(ratings) < 2 THEN ErrRaters
  ELSE IF Cardinality({Len(ratings[j]) : j \in 1..Len(ratings)}) # 1
    THEN ErrLength
  ELSE IF \E i \in 1..Len(ratings[1]) : ratings[1][i] \notin {0, 1}
    THEN ErrBinary
  ELSE IF Len(ratings[1]) < 2 THEN ErrItems
  ELSE NoErr

\* the five checks of the input validation, in the order of the code;
\* NoErr when none raises
Validate(ratings) ==
  IF Len(ratings) = 0 THEN ErrEmpty
  ELSE IF Len(ratings) < 2 THEN ErrRaters
  ELSE IF Cardinality({Len(ratings[j]) : j \in 1..Len(ratings)}) # 1
    THEN ErrLength
  ELSE IF \E j \in 1..Len(ratings) :
            \E i \in 1..Len(ratings[j]) : ratings[j][i] \notin {0, 1}
    THEN ErrBinary
  ELSE IF Len(ratings[1]) < 2 THEN ErrItems
  ELSE NoErr

\* PairLoop with the inner loop reaching the next rater only (k = j + 1)
RECURSIVE PairLoopAdjacent(_, _, _, _, _, _)
PairLoopAdjacent(ratings, i, j, k, agreements, total_pairs) ==
  LET n_raters == Len(ratings)
      n_items  == Len(ratings[1])
      cnt      == <<IF ratings[j][i] = ratings[k][i]
                      THEN agreements + 1 ELSE agreements,
                    total_pairs + 1>>
  IN  IF i > n_items
        THEN [agreements |-> agreements, total_pairs |-> total_pairs]
      ELSE IF j >= n_raters
        THEN PairLoopAdjacent(ratings, i + 1, 1, 2, agreements, total_pairs)
      ELSE CHOOSE y \in {PairLoopAdjacent(ratings, i, j + 1, j + 2,
                                          c[1], c[2]) : c \in {cnt}} : TRUE

\* the three nested loops over items i, raters j and raters k > j
RECURSIVE PairLoop(_, _, _, _, _, _)
PairLoop(ratings, i, j, k, agreements, total_pairs) ==
  LET n_raters == Len(ratings)
      n_items  == Len(ratings[1])
      cnt      == <<IF ratings[j][i] = ratings[k][i]
                      THEN agreements + 1 ELSE agreements,
                    total_pairs + 1>>
  IN  IF i > n_items
        THEN [agreements |-> agreements, total_pairs |-> total_pairs]
      ELSE IF j > n_raters
        THEN PairLoop(ratings, i + 1, 1, 2, agreements, total_pairs)
      ELSE IF k > n_raters
        THEN PairLoop(ratings, i, j + 1, j + 2, agreements, total_pairs)
      ELSE CHOOSE y \in {PairLoop(ratings, i, j, k + 1, c[1], c[2]) :
                           c \in {cnt}} : TRUE

\* sum(item) for column i of zip(*ratings)
RECURSIVE ColSum(_, _, _)
ColSum(ratings, i, j) ==
  IF j = 0 THEN 0 ELSE ColSum(ratings, i, j - 1) + ratings[j][i]

\* Python int / int for a >= 0, 0 < b < Base: correctly rounded quotient
IntTrueDiv(a, b) == FDivByInt(FFromInt(a), b)

\* [sum(item) / n_raters for item in zip(*ratings)]
ItemFractions(ratings) ==
  [i \in 1..Len(ratings[1]) |->
     IntTrueDiv(ColSum(ratings, i, Len(ratings)), Len(ratings))]

\* the additions of numpy's sum for fewer than 8 elements: left to right
RECURSIVE SumTo(_, _)
SumTo(xs, n) == IF n = 0 THEN FZero(0) ELSE FAdd(SumTo(xs, n - 1), xs[n])

NpMean(xs) == FDivByInt(SumTo(xs, Len(xs)), Len(xs))

FOne == [k |-> "fin", s |-> 0, m |-> <<0, 0, 0, 128>>, e |-> -52]

\* x ** 2 (pow taken as the correctly rounded square)
FSquare(x) == FMul(x, x)

\* ExpectedAgreement with p_neg not squared
ExpectedAgreementUnsquared(p_pos) ==
  LET p_neg == FSub(FOne, p_pos) IN FAdd(FSquare(p_pos), p_neg)

ExpectedAgreement(p_pos) ==
  LET p_neg == FSub(FOne, p_pos) IN FAdd(FSquare(p_pos), FSquare(p_neg))

\* Kappa without the division by 1 - p_e
KappaUncorrected(po, p_e) == FSub(po, p_e)

Kappa(po, p_e) == FDiv(FSub(po, p_e), FSub(FOne, p_e))

Raise(msg) == [err |-> msg, kappa |-> FNaN, po |-> FNaN]

fleiss_kappa_binary(ratings) ==
  LET v == Validate(ratings) IN
  IF v # NoErr THEN Raise(v)
  ELSE
    LET cnt   == PairLoop(ratings, 1, 1, 2, 0, 0)
        po    == IntTrueDiv(cnt.agreements, cnt.total_pairs)
        p_pos == NpMean(ItemFractions(ratings))
        p_e   == ExpectedAgreement(p_pos)
    IN  IF cnt.total_pairs = 0 THEN Raise(ErrZeroDiv)
        ELSE [err |-> NoErr, kappa |-> Kappa(po, p_e), po |-> po]

(***************************************************************************)
(* reviewer_contribution_analysis                                          *)
(***************************************************************************)
\* [ratings[j] for j in range(n_raters) if j != i], i counted from 0
\* Reduced that leaves row i in
ReducedKeepsRow(ratings, i) == ratings

Reduced(ratings, i) ==
  [j \in 1..(Len(ratings) - 1) |->
     IF j <= i THEN ratings[j] ELSE ratings[j + 1]]

\* position (from 1) of the element max() returns: the first element, replaced
\* by each later element that compares greater than the current one
RECURSIVE PyMaxFrom(_, _, _)
PyMaxFrom(xs, j, best) ==
  IF j > Len(xs) THEN best
  ELSE PyMaxFrom(xs, j + 1, IF FGt(xs[j], xs[best]) THEN j ELSE best)

PyMaxPos(xs) == PyMaxFrom(xs, 2, 1)

\* list.index(value), counted from 0, for the value at position pos: the
\* first element that is that object or compares equal to it
PyIndex(xs, pos) ==
  (CHOOSE j \in 1..Len(xs) :
     /\ j = pos \/ FEq(xs[j], xs[pos])
     /\ \A h \in 1..(j - 1) : ~(h = pos \/ FEq(xs[h], xs[pos]))) - 1

Pending == "pending"
NotComputed == [err |-> Pending, kappa |-> FNaN, po |-> FNaN]
NoReport ==
  [status |-> Pending, err |-> NoErr, most_contributory_reviewer |-> -1,
   highest_kappa |-> FNaN, kappa_scores |-> <<>>]
RaisedReport(msg) == [NoReport EXCEPT !.status = "raised", !.err = msg]
ReturnedReport(scores) ==
  [status |-> "returned", err |-> NoErr,
   most_contributory_reviewer |-> PyIndex(scores, PyMaxPos(scores)),
   highest_kappa |-> scores[PyMaxPos(scores)],
   kappa_scores |-> scores]

(***************************************************************************)
(* Inputs                                                                  *)
(***************************************************************************)
MaxRaters == 3
MaxItems == 2
Values == {0, 1, 2}

\* every list of at most MaxRaters lists of at most MaxItems values
AllRows == UNION {[1..n -> Values] : n \in 0..MaxItems}
AllMatrices == UNION {[1..r -> AllRows] : r \in 0..MaxRaters}

MaxCells == 9

\* the example of the module
ExampleRatings == << <<1, 0, 1, 1, 0>>, <<1, 0, 1, 1, 0>>, <<1, 1, 1, 0, 0>> >>

\* the numbers of raters and of items, 2 or more, of at most MaxCells ratings
Shapes == {s \in (2..MaxCells) \X (2..MaxCells) : s[1] * s[2] <= MaxCells}

\* the rectangular binary matrices of at least 2 raters and 2 items
ValidMatrices == UNION {[1..s[1] -> [1..s[2] -> {0, 1}]] : s \in Shapes}

(***************************************************************************)
(* State                                                                   *)
(***************************************************************************)
VARIABLES
  ratings,       \* the matrix the caller passes
  res,           \* outcome of fleiss_kappa_binary(ratings)
  apc,           \* position in reviewer_contribution_analysis
  i,             \* its loop index
  kappa_scores,  \* its list of scores
  report,        \* its outcome
  pkind,         \* "rows" or "items": what was permuted, "none" before
  pmat,          \* ratings with its rows or its item columns permuted
  pres           \* outcome of fleiss_kappa_binary(pmat)

vars == <<ratings, res, apc, i, kappa_scores, report, pkind, pmat, pres>>

Start ==
  /\ res = NotComputed
  /\ apc = "idle"
  /\ i = 0
  /\ kappa_scores = <<>>
  /\ report = NoReport
  /\ pkind = "none"
  /\ pmat = <<>>
  /\ pres = NotComputed

Init == ratings \in AllMatrices /\ Start

InitValid == ratings \in ValidMatrices \cup {ExampleRatings} /\ Start

\* kappa, po = fleiss_kappa_binary(ratings), called before any analysis
Compute ==
  /\ res = NotComputed
  /\ apc = "idle"
  /\ res' = fleiss_kappa_binary(ratings)
  /\ UNCHANGED <<ratings, apc, i, kappa_scores, report, pkind, pmat, pres>>

\* entry of reviewer_contribution_analysis(ratings)
AnalyzeStart ==
  /\ apc = "idle"
  /\ pkind = "none"
  /\ apc' = "loop"
  /\ i' = 0
  /\ kappa_scores' = <<>>
  /\ UNCHANGED <<ratings, res, report, pkind, pmat, pres>>

\* one iteration of the loop; an exception of the reduced computation leaves
\* the function
AnalyzeStep ==
  /\ apc = "loop"
  /\ i < Len(ratings)
  /\ \E r \in {fleiss_kappa_binary(Reduced(ratings, i))} :
       IF r.err # NoErr
         THEN /\ apc' = "done"
              /\ report' = RaisedReport(r.err)
              /\ UNCHANGED <<i, kappa_scores>>
         ELSE /\ kappa_scores' = Append(kappa_scores, r.kappa)
              /\ i' = i + 1
              /\ UNCHANGED <<apc, report>>
  /\ UNCHANGED <<ratings, res, pkind, pmat, pres>>

\* after the loop: max, index and return
AnalyzeFinish ==
  /\ apc = "loop"
  /\ i = Len(ratings)
  /\ apc' = "done"
  /\ report' = IF kappa_scores = <<>> THEN RaisedReport(ErrMaxEmpty)
               ELSE ReturnedReport(kappa_scores)
  /\ UNCHANGED <<ratings, res, i, kappa_scores, pkind, pmat, pres>>

Next == Compute \/ AnalyzeStart \/ AnalyzeStep \/ AnalyzeFinish

Spec == Init /\ [][Next]_vars

SpecValid == InitValid /\ [][Next]_vars

(***************************************************************************)
(* The same computation on a reordered matrix.  A reordering exchanges two *)
(* rows, or two item columns in every row; every permutation is a product  *)
(* of such exchanges, and the initial matrices are closed under them.      *)
(***************************************************************************)
Exchange(xs, a, b) ==
  [j \in 1..Len(xs) |-> IF j = a THEN xs[b] ELSE IF j = b THEN xs[a] ELSE xs[j]]

PermuteRows ==
  /\ res # NotComputed
  /\ apc = "idle"
  /\ pkind = "none"
  /\ \E a \in 1..Len(ratings) : \E b \in (a + 1)..Len(ratings) :
       \E m \in {Exchange(ratings, a, b)} :
         /\ pmat' = m
         /\ pres' = fleiss_kappa_binary(m)
  /\ pkind' = "rows"
  /\ UNCHANGED <<ratings, res, apc, i, kappa_scores, report>>

PermuteItems ==
  /\ res # NotComputed
  /\ apc = "idle"
  /\ pkind = "none"
  /\ \E a \in 1..Len(ratings[1]) : \E b \in (a + 1)..Len(ratings[1]) :
       \E m \in {[j \in 1..Len(ratings) |-> Exchange(ratings[j], a, b)]} :
         /\ pmat' = m
         /\ pres' = fleiss_kappa_binary(m)
  /\ pkind' = "items"
  /\ UNCHANGED <<ratings, res, apc, i, kappa_scores, report>>

NextSym == Compute \/ PermuteRows \/ PermuteItems

SpecSym == InitValid /\ [][NextSym]_vars

(***************************************************************************)
(* Properties                                                              *)
(***************************************************************************)
NRaters == Len(ratings)
NItems == Len(ratings[1])
Computed == res # NotComputed

\* the five preconditions of compute, each stated on its own
Violates(n, m) ==
  CASE n = 1 -> Len(m) = 0
    [] n = 2 -> Len(m) < 2
    [] n = 3 -> \E j, k \in 1..Len(m) : Len(m[j]) # Len(m[k])
    [] n = 4 -> \E j \in 1..Len(m) : \E c \in 1..Len(m[j]) : m[j][c] \notin {0, 1}
    [] n = 5 -> \E j \in 1..Len(m) : Len(m[j]) < 2

Violated(m) == {n \in 1..5 : Violates(n, m)}
CheckMessage == <<ErrEmpty, ErrRaters, ErrLength, ErrBinary, ErrItems>>
ValidationErrors == {CheckMessage[n] : n \in 1..5}
Lowest(S) == CHOOSE n \in S : \A h \in S : n <= h

\* C1: compute fails with the message of the lowest-numbered violated check,
\* and raises no validation error on a matrix that violates none.
C1_ValidationOrder ==
  Computed =>
    IF Violated(ratings) = {} THEN res.err \notin ValidationErrors
    ELSE res.err = CheckMessage[Lowest(Violated(ratings))]

\* a one-row matrix holding a non-binary value got the rater count error
C1_Witness ==
  /\ Computed
  /\ NRaters = 1
  /\ Violates(4, ratings)
  /\ res.err = ErrRaters

\* C2 as stated: every matrix that contains a value other than 0 or 1 fails
\* with the binary error, whatever its rater count, row lengths and item count.
C2_Original ==
  (Computed /\ Violates(4, ratings)) => res.err = ErrBinary

\* C2 as amended: a matrix of at least two rows of equal length that contains
\* a value other than 0 or 1 fails with the binary error, whether or not it
\* has two items.
C2_BinaryEnforcement ==
  (Computed /\ Violates(4, ratings) /\ ~Violates(2, ratings)
     /\ ~Violates(3, ratings)) => res.err = ErrBinary

\* two rows of one item, one holding a 2, got the binary error
C2_Witness ==
  /\ Computed
  /\ NRaters = 2
  /\ Violates(4, ratings)
  /\ Violates(5, ratings)
  /\ res.err = ErrBinary

\* C3: whenever compute returns (kappa, po), 0 <= po <= 1 and kappa <= 1.
C3_Bounds ==
  (Computed /\ res.err = NoErr) =>
    /\ FLe(FZero(0), res.po)
    /\ FLe(res.po, FOne)
    /\ FLe(res.kappa, FOne)

Constant(m) ==
  \E v \in {0, 1} : \A j \in 1..Len(m) : \A c \in 1..Len(m[j]) : m[j][c] = v

\* p_e = p_pos^2 + p_neg^2 for a mean p_pos
PeOf(p_pos) ==
  FAdd(FMul(p_pos, p_pos), FMul(FSub(FOne, p_pos), FSub(FOne, p_pos)))

\* the mean over the items of the fraction of raters marking the item 1
MeanPositive(m) ==
  NpMean([c \in 1..Len(m[1]) |->
            IntTrueDiv(Cardinality({j \in 1..Len(m) : m[j][c] = 1}), Len(m))])

\* C4: on a valid matrix p_e = 1 exactly when every entry is 0 or every entry
\* is 1; in that case compute ends in a division by zero and returns no pair,
\* and in every other case 1 - p_e > 0 and compute returns a pair.
C4_Degenerate ==
  Computed =>
    /\ FEq(PeOf(MeanPositive(ratings)), FOne) <=> Constant(ratings)
    /\ Constant(ratings) => res.err = ErrZeroDiv
    /\ ~Constant(ratings) =>
         /\ res.err = NoErr
         /\ FGt(FSub(FOne, PeOf(MeanPositive(ratings))), FZero(0))

\* C5: analyze returns one kappa per rater, entry i being the kappa of the
\* matrix without row i, the maximum entry, and the lowest index holding the
\* maximum; index 2 for the example of the module.
C5_LeaveOneOut ==
  report.status = "returned" =>
    LET scores == report.kappa_scores
        best   == report.highest_kappa
    IN  /\ Len(scores) = NRaters
        /\ \A k \in 1..NRaters :
             scores[k] = fleiss_kappa_binary(Reduced(ratings, k - 1)).kappa
        /\ \A k \in 1..NRaters : FLe(scores[k], best)
        /\ \E k \in 1..NRaters : FEq(scores[k], best)
        /\ \A k \in 1..NRaters :
             (k - 1 = report.most_contributory_reviewer) <=>
               (FEq(scores[k], best) /\
                  \A h \in 1..(k - 1) : ~FEq(scores[h], best))
        /\ ratings = ExampleRatings => report.most_contributory_reviewer = 2

\* C6: with exactly 2 rater rows analyze fails with the rater count error of
\* its first reduced computation and returns nothing.
C6_TwoRaters ==
  (apc = "done" /\ NRaters = 2) =>
    /\ report = RaisedReport(ErrRaters)
    /\ i = 0
    /\ kappa_scores = <<>>

\* analyze failed on a 2-row matrix on which compute succeeded
C6_Witness ==
  /\ apc = "done"
  /\ NRaters = 2
  /\ res.err = NoErr
  /\ report.status = "raised"

\* C7 as stated: exchanging rater rows or item columns leaves the outcome of
\* compute unchanged.
C7_Original == pkind # "none" => pres = res

\* C7 as amended: reordering the rater rows leaves the outcome unchanged;
\* reordering the item columns leaves the failure or po unchanged and leaves
\* unchanged whether kappa is NaN (kappa itself may differ in its last bits).
C7_Symmetry ==
  /\ pkind = "rows" => pres = res
  /\ pkind = "items" =>
       /\ pres.err = res.err
       /\ pres.po = res.po
       /\ IsNaN(pres.kappa) <=> IsNaN(res.kappa)

\* rows were exchanged in a matrix of distinct rows on which compute returns
C7_Witness ==
  /\ pkind = "rows"
  /\ pmat # ratings
  /\ res.err = NoErr
  /\ ~IsNaN(res.kappa)
  /\ pres.kappa = res.kappa

AllRowsIdentical(m) == \A j \in 1..Len(m) : m[j] = m[1]
Mixed(row) == (\E c \in 1..Len(row) : row[c] = 0) /\ (\E c \in 1..Len(row) : row[c] = 1)

\* C8: when all rater rows are identical po = 1, and kappa = 1 whenever
\* p_e < 1, which is whenever the common row holds both a 0 and a 1.
C8_PerfectAgreement ==
  (Computed /\ res.err = NoErr /\ AllRowsIdentical(ratings)) =>
    /\ res.po = FOne
    /\ FLt(PeOf(MeanPositive(ratings)), FOne) <=> Mixed(ratings[1])
    /\ Mixed(ratings[1]) => res.kappa = FOne

\* identical rows holding both values: kappa is 1
C8_Witness ==
  /\ Computed
  /\ AllRowsIdentical(ratings)
  /\ Mixed(ratings[1])
  /\ res.kappa = FOne

AgreeingTriples(m) ==
  {t \in (1..Len(m[1])) \X (1..Len(m)) \X (1..Len(m)) :
     t[2] < t[3] /\ m[t[2]][t[1]] = m[t[3]][t[1]]}
TotalPairs(m) == (Len(m[1]) * Len(m) * (Len(m) - 1)) \div 2
Ones(m) == Cardinality({t \in (1..Len(m)) \X (1..Len(m[1])) : m[t[1]][t[2]] = 1})
RECURSIVE ColumnOnes(_, _)
ColumnOnes(m, c) ==
  IF c = 0 THEN 0
  ELSE ColumnOnes(m, c - 1) + Cardinality({j \in 1..Len(m) : m[j][c] = 1})

\* po, p_e and kappa of the formulas, for the mean positive rate p_pos
Conforms(p_pos) ==
  /\ TotalPairs(ratings) > 0
  /\ res.po = IntTrueDiv(Cardinality(AgreeingTriples(ratings)), TotalPairs(ratings))
  /\ res.kappa = FDiv(FSub(res.po, PeOf(p_pos)), FSub(FOne, PeOf(p_pos)))

\* C9 as stated: po = agreements / total_pairs and kappa = (po - p_e)/(1 - p_e)
\* with p_pos the mean of the per-item fractions, equal to the number of 1s
\* divided by R*N.
C9_Original ==
  (Computed /\ res.err = NoErr /\ FLt(PeOf(MeanPositive(ratings)), FOne)) =>
    /\ Conforms(MeanPositive(ratings))
    /\ MeanPositive(ratings) = IntTrueDiv(Ones(ratings), NRaters * NItems)

\* C9 as amended: the same, p_pos being the floating-point mean of the
\* per-item fractions taken in item order; the per-item counts add up to the
\* number of 1s, but the mean need not be the double nearest to it over R*N.
C9_Formula ==
  (Computed /\ res.err = NoErr /\ FLt(PeOf(MeanPositive(ratings)), FOne)) =>
    /\ Conforms(MeanPositive(ratings))
    /\ ColumnOnes(ratings, NItems) = Ones(ratings)

\* a returned pair whose p_pos is not the double nearest to ones / (R*N)
C9_Witness ==
  /\ Computed
  /\ res.err = NoErr
  /\ ~IsNaN(res.kappa)
  /\ MeanPositive(ratings) # IntTrueDiv(Ones(ratings), NRaters * NItems)

\* C10: analyze returns a report only for a matrix that passes the five checks
\* and has at least 3 rows; on every other matrix it ends in an error.
C10_AnalyzeNeedsThree ==
  /\ report.status = "returned" =>
       /\ apc = "done"
       /\ Violated(ratings) = {}
       /\ NRaters >= 3
  /\ (apc = "done" /\ (Violated(ratings) # {} \/ NRaters < 3)) =>
       /\ report.status = "raised"
       /\ report.err # NoErr
       /\ report.most_contributory_reviewer = -1
       /\ report.kappa_scores = <<>>

\* three rows, a non-binary value only in the last: analyze failed
C10_Witness ==
  /\ apc = "done"
  /\ NRaters = 3
  /\ Violated(ratings) = {4}
  /\ ~Violates(4, SubSeq(ratings, 1, 2))
  /\ report.status = "raised"

====
